---- MODULE Spec2Model ----
(***************************************************************************)
(* Model of the extract/transcribe pipeline of                             *)
(* src/src/ExplicitUtil/whisper_cpp_transcribe.py: transcribe_videos (the  *)
(* orchestrator), extract_audio (one pool task per video) and              *)
(* whisper_worker (the single consumer thread).                            *)
(*                                                                         *)
(* Two queue objects exist in the program: the module-level whisper_queue  *)
(* (line 11), which extract_audio and whisper_worker use, and the local    *)
(* variable of the same name that transcribe_videos creates at line 264,   *)
(* which is the one transcribe_videos joins and closes.                    *)
(***************************************************************************)
EXTENDS Integers, Sequences, FiniteSets

\* Number of video files rglob finds with an extension of the allow-list.
NumVideos == 2

\* Number of items a direct client of the module-level queue may put
\* (specification WorkerSpec only).
MaxClientPuts == 3

Videos == 1..NumVideos

\* Audio paths: input_folder / f"{base_name}.wav"; two videos of one folder
\* with the same stem have the same audio path.
Wavs == 1..NumVideos

\* The close sentinel (None) as a queue item; jobs are video ids.
Sentinel == 0

VARIABLES
    mainPc,          \* position of transcribe_videos
    inputExists,     \* input_folder.exists()
    rootExists,      \* whisper_root.exists()
    stem,            \* video -> audio path (stem of the video in its folder)
    futures,         \* video -> state of its extract_audio task
    extResult,       \* video -> how its ffmpeg invocation ended
    enqueued,        \* video -> number of jobs put for it
    whisper_queue,   \* items of the module-level queue (line 11)
    unfinished,      \* unfinished_tasks of the module-level queue
    local_queue,     \* items of the queue created at line 264
    local_unfinished,\* unfinished_tasks of the queue created at line 264
    worker_thread,   \* state of the whisper_worker thread
    cfgComplete,     \* the loaded command table has every key the worker reads
    job,             \* the job the worker holds (0: none)
    procs,           \* jobs whose transcription subprocess is alive
    arrivals,        \* jobs in the order they were put on the module-level queue
    taken,           \* items in the order the worker dequeued them
    launched,        \* jobs in the order a transcription subprocess was started
    doneCount,       \* video -> number of task_done() calls made for its job
    outcome,         \* video -> terminal state of its job
    lastFinish,      \* the worker's latest finished job, its result and cleanup
    audio,           \* audio path -> 0 (absent) or the video it was extracted from
    clientPuts       \* number of items put by a direct client of the module queue

\* The directory walk of transcribe_videos / process_videos.
VARIABLES
    entryKind,       \* directory entry -> "file" or "dir"
    entrySuffix,     \* directory entry -> Path.suffix of the entry
    allowList,       \* the suffix argument: the extensions to process
    walked,          \* entries rglob("*") has yielded so far
    submitted        \* directory entry -> number of extractor invocations

\* remove_empty_folders.
VARIABLES
    rmRootIsDir,     \* os.path.isdir(root_dir)
    rmParent,        \* directory below the root -> its parent directory
    rmHasFiles,      \* directory below the root -> it holds at least one file
    rmDryRun,        \* the dry_run argument
    rmExists,        \* directories that exist now (the root is 0)
    rmVisited,       \* directories os.walk has yielded
    rmFailed,        \* directories whose os.rmdir raised OSError
    rmCount,         \* the local variable count
    rmPc,            \* "walk" or "returned"
    rmResult         \* the value returned

\* recursive_unzip.
VARIABLES
    uzFolderExists,  \* folder_path.exists()
    uzDir,           \* archive -> the directory it lies in
    uzDelete,        \* the delete_zips argument
    uzState,         \* archive -> "found", "extracted" or "failed"
    uzTarget,        \* archive -> the directory its content was extracted into
    uzZips,          \* archives that still exist
    uzPc             \* "check", "loop" or "returned"

\* run_namer_command, called for one file after the other.
VARIABLES
    nmFirst,         \* file -> result of the command with -i
    nmSecond,        \* file -> result of the command without -i
    nmReturn,        \* file whose call returned -> the returncode it returned
    nmCur            \* the file whose call is between its two commands (0: none)

\* zip_and_move and async_zip_and_move.
VARIABLES
    zmAsync,         \* the call is async_zip_and_move
    zmSrcIsDir,      \* source_folder.is_dir()
    zmDstIsDir,      \* destination_folder.is_dir()
    zmNonEmpty,      \* folder -> it has at least one entry
    zmHasSubdir,     \* folder -> one of its entries is a directory
    zmDest,          \* folder -> its destination zip: 0 absent, 1 the archive of
                     \* the folder's current content, 2 another archive
    zmTemp,          \* folder -> its <name>_temp.zip, with the same coding
    zmState,         \* folder -> "todo", "zipped", "done", "skipped" or "raised"
    zmMoveFailed,    \* folders whose shutil.move raised
    zmPc             \* "check", "run", "returned" or "raised"

\* convert_pic_to_webp_multithreaded and its convert_single_pic threads.
VARIABLES
    cvCaseSensitive, \* the file system distinguishes a.jpg from a.JPG
    cvMagick,        \* the magick executable can be launched
    num_threads,     \* the argument of that name
    cvExtCase,       \* picture -> "lower", "upper" or "mixed": its extension
    pic_files,       \* the list of that name
    cvIdx,           \* number of elements of pic_files the loop has taken
    threads,         \* the list of that name, as indices of pic_files
    cvThread,        \* index -> "new", "started", "running" or "done"
    cvConverted,     \* indices whose thread validated the WebP and deleted
                     \* the source
    cvKilled,        \* indices whose converter process was sent kill() and
                     \* has not ended yet
    cvSrc,           \* picture -> the source file exists
    cvWebp,          \* picture -> "none", "valid" or "bad": its .webp file
    failed_count,    \* failed_count["count"]
    cvPc             \* "list", "loop", "join" or "done"

\* batch_add_attribute on the .nfo files of a directory.
VARIABLES
    nfAttribute,     \* the argument attribute
    nfValue,         \* the argument value
    nfParses,        \* file -> ET.parse succeeds on it
    nfRoot,          \* file -> the children of its root element, in order
    nfDone,          \* files the running call has gone through
    nfCalls,         \* number of completed calls with these arguments
    nfAfterFirst     \* the files as the first call left them

pipeVars == << mainPc, inputExists, rootExists, stem, futures, extResult,
               enqueued, whisper_queue, unfinished, local_queue, local_unfinished,
               worker_thread, cfgComplete, job, procs, arrivals, taken, launched,
               doneCount, outcome, lastFinish, audio, clientPuts >>

discVars == << entryKind, entrySuffix, allowList, walked, submitted >>

\* The variables of the other utilities, which the pipeline never touches.
rmVars == << rmRootIsDir, rmParent, rmHasFiles, rmDryRun, rmExists, rmVisited,
            rmFailed, rmCount, rmPc, rmResult >>

uzVars == << uzFolderExists, uzDir, uzDelete, uzState, uzTarget, uzZips, uzPc >>

nmVars == << nmFirst, nmSecond, nmReturn, nmCur >>

zmVars == << zmAsync, zmSrcIsDir, zmDstIsDir, zmNonEmpty, zmHasSubdir, zmDest,
            zmTemp, zmState, zmMoveFailed, zmPc >>

cvVars == << cvCaseSensitive, cvMagick, num_threads, cvExtCase, pic_files, cvIdx,
            threads, cvThread, cvConverted, cvKilled, cvSrc, cvWebp, failed_count,
            cvPc >>

nfVars == << nfAttribute, nfValue, nfParses, nfRoot, nfDone, nfCalls, nfAfterFirst >>

toolVars == << discVars, rmVars, uzVars, nmVars, zmVars, cvVars, nfVars >>

vars == << pipeVars, toolVars >>

\* Values of a utility's variables while that utility is not running.
DiscIdle ==
    /\ entryKind = << >>
    /\ entrySuffix = << >>
    /\ allowList = {}
    /\ walked = {}
    /\ submitted = << >>

RmIdle ==
    /\ rmRootIsDir = FALSE
    /\ rmParent = << >>
    /\ rmHasFiles = << >>
    /\ rmDryRun = FALSE
    /\ rmExists = {}
    /\ rmVisited = {}
    /\ rmFailed = {}
    /\ rmCount = 0
    /\ rmPc = "none"
    /\ rmResult = 0

UzIdle ==
    /\ uzFolderExists = FALSE
    /\ uzDir = << >>
    /\ uzDelete = FALSE
    /\ uzState = << >>
    /\ uzTarget = << >>
    /\ uzZips = {}
    /\ uzPc = "none"

NmIdle ==
    /\ nmFirst = << >>
    /\ nmSecond = << >>
    /\ nmReturn = << >>
    /\ nmCur = 0

ZmIdle ==
    /\ zmAsync = FALSE
    /\ zmSrcIsDir = FALSE
    /\ zmDstIsDir = FALSE
    /\ zmNonEmpty = << >>
    /\ zmHasSubdir = << >>
    /\ zmDest = << >>
    /\ zmTemp = << >>
    /\ zmState = << >>
    /\ zmMoveFailed = {}
    /\ zmPc = "none"

CvIdle ==
    /\ cvCaseSensitive = FALSE
    /\ cvMagick = FALSE
    /\ num_threads = 0
    /\ cvExtCase = << >>
    /\ pic_files = << >>
    /\ cvIdx = 0
    /\ threads = {}
    /\ cvThread = << >>
    /\ cvConverted = {}
    /\ cvKilled = {}
    /\ cvSrc = << >>
    /\ cvWebp = << >>
    /\ failed_count = 0
    /\ cvPc = "none"

NfIdle ==
    /\ nfAttribute = "none"
    /\ nfValue = "none"
    /\ nfParses = << >>
    /\ nfRoot = << >>
    /\ nfDone = {}
    /\ nfCalls = 0
    /\ nfAfterFirst = << >>

ToolsIdle == DiscIdle /\ RmIdle /\ UzIdle /\ NmIdle /\ ZmIdle /\ CvIdle /\ NfIdle

mainVars == << mainPc, inputExists, rootExists, stem, local_queue, local_unfinished >>
extVars == << futures, extResult, enqueued, clientPuts >>
workerVars == << worker_thread, cfgComplete, job, procs, taken, launched,
                 doneCount, outcome, lastFinish >>

NoFinish == [job |-> 0, success |-> FALSE, unlinkRaised |-> FALSE]

----------------------------------------------------------------------------
\* queue.Queue

\* Queue.put(item): append, unfinished_tasks += 1.
Put(q, item) == Append(q, item)

\* Queue.get() as a LIFO queue would answer it: the newest item.
GetItem_Lifo(q) == q[Len(q)]

\* Queue.get(): the item the consumer receives (FIFO: the oldest).
GetItem(q) == Head(q)

\* Queue.get(): what stays in the queue.
GetRest(q) == Tail(q)

\* Queue.join() returns when unfinished_tasks is 0.
JoinReturns(n) == n = 0

----------------------------------------------------------------------------
\* transcribe_videos

\* State after the call is entered (line 264: a fresh local queue) and before
\* the directory checks.  The directory tree and the two exists() answers are
\* inputs.
Init ==
    /\ mainPc = "check"
    /\ inputExists \in BOOLEAN
    /\ rootExists \in BOOLEAN
    /\ stem \in {s \in [Videos -> Wavs] : s[1] = 1}
    /\ futures = [v \in Videos |-> "unsubmitted"]
    /\ extResult = [v \in Videos |-> "none"]
    /\ enqueued = [v \in Videos |-> 0]
    /\ whisper_queue = << >>
    /\ unfinished = 0
    /\ local_queue = << >>
    /\ local_unfinished = 0
    /\ worker_thread = "unstarted"
    /\ cfgComplete = FALSE
    /\ job = 0
    /\ procs = {}
    /\ arrivals = << >>
    /\ taken = << >>
    /\ launched = << >>
    /\ doneCount = [v \in Videos |-> 0]
    /\ outcome = [v \in Videos |-> "none"]
    /\ lastFinish = NoFinish
    /\ audio = [w \in Wavs |-> 0]
    /\ clientPuts = 0
    /\ ToolsIdle

\* A check of the input folder only.
CheckDirectories_InputOnly ==
    /\ UNCHANGED toolVars
    /\ mainPc = "check"
    /\ mainPc' = IF inputExists THEN "spawn" ELSE "aborted"
    /\ UNCHANGED << inputExists, rootExists, stem, local_queue, local_unfinished,
                    extVars, workerVars, whisper_queue, unfinished, arrivals, audio >>

\* Lines 267-272: a missing directory is reported and the call returns.
CheckDirectories ==
    /\ UNCHANGED toolVars
    /\ mainPc = "check"
    /\ mainPc' = IF inputExists /\ rootExists THEN "spawn" ELSE "aborted"
    /\ UNCHANGED << inputExists, rootExists, stem, local_queue, local_unfinished,
                    extVars, workerVars, whisper_queue, unfinished, arrivals, audio >>

\* Lines 275-276: the worker thread is created and started.
StartWorker ==
    /\ UNCHANGED toolVars
    /\ mainPc = "spawn"
    /\ mainPc' = "submit"
    /\ worker_thread' = "init"
    /\ UNCHANGED << inputExists, rootExists, stem, local_queue, local_unfinished,
                    extVars, cfgComplete, job, procs, taken, launched, doneCount,
                    outcome, lastFinish, whisper_queue, unfinished, arrivals, audio >>

\* A submission that does not wait for the worker thread to be started.
Submit_BeforeWorker(v) ==
    /\ UNCHANGED toolVars
    /\ mainPc \in {"spawn", "submit"}
    /\ futures[v] = "unsubmitted"
    /\ futures' = [futures EXCEPT ![v] = "pending"]
    /\ UNCHANGED << mainVars, extResult, enqueued, clientPuts, workerVars,
                    whisper_queue, unfinished, arrivals, audio >>

\* Lines 280-284: one extract_audio task is submitted for a matching file.
Submit(v) ==
    /\ UNCHANGED toolVars
    /\ mainPc = "submit"
    /\ futures[v] = "unsubmitted"
    /\ futures' = [futures EXCEPT ![v] = "pending"]
    /\ UNCHANGED << mainVars, extResult, enqueued, clientPuts, workerVars,
                    whisper_queue, unfinished, arrivals, audio >>

\* Line 286 is reached when the directory walk has submitted every file.
SubmitDone ==
    /\ UNCHANGED toolVars
    /\ mainPc = "submit"
    /\ \A v \in Videos : futures[v] # "unsubmitted"
    /\ mainPc' = "wait"
    /\ UNCHANGED << inputExists, rootExists, stem, local_queue, local_unfinished,
                    extVars, workerVars, whisper_queue, unfinished, arrivals, audio >>

\* Lines 286-287: wait(futures) and the executor's shutdown return when every
\* task has returned or raised (a raised exception stays in its future).
WaitFutures ==
    /\ UNCHANGED toolVars
    /\ mainPc = "wait"
    /\ \A v \in Videos : futures[v] \in {"returned", "raised"}
    /\ mainPc' = "qjoin"
    /\ UNCHANGED << inputExists, rootExists, stem, local_queue, local_unfinished,
                    extVars, workerVars, whisper_queue, unfinished, arrivals, audio >>

\* Line 289: whisper_queue.join() on the queue of line 264.
QueueJoin ==
    /\ UNCHANGED toolVars
    /\ mainPc = "qjoin"
    /\ JoinReturns(local_unfinished)
    /\ mainPc' = "close"
    /\ UNCHANGED << inputExists, rootExists, stem, local_queue, local_unfinished,
                    extVars, workerVars, whisper_queue, unfinished, arrivals, audio >>

\* Line 292: whisper_queue.put(None) on the queue of line 264.
PutSentinel ==
    /\ UNCHANGED toolVars
    /\ mainPc = "close"
    /\ local_queue' = Put(local_queue, Sentinel)
    /\ local_unfinished' = local_unfinished + 1
    /\ mainPc' = "wjoin"
    /\ UNCHANGED << inputExists, rootExists, stem,
                    extVars, workerVars, whisper_queue, unfinished, arrivals, audio >>

\* Lines 293-296: worker_thread.join() returns once the thread has ended (by
\* leaving its loop or by an uncaught exception); completion is reported.
JoinWorker ==
    /\ UNCHANGED toolVars
    /\ mainPc = "wjoin"
    /\ worker_thread \in {"terminated", "dead"}
    /\ mainPc' = "done"
    /\ UNCHANGED << inputExists, rootExists, stem, local_queue, local_unfinished,
                    extVars, workerVars, whisper_queue, unfinished, arrivals, audio >>

----------------------------------------------------------------------------
\* extract_audio

\* Lines 59-60: a pool thread takes the task and launches ffmpeg.
\* subprocess.run raises FileNotFoundError when ffmpeg cannot be launched;
\* the except clause of line 63 catches only CalledProcessError, so the
\* exception leaves extract_audio and ends the task.
ExtractLaunch(v, canLaunch) ==
    /\ UNCHANGED toolVars
    /\ futures[v] = "pending"
    /\ IF canLaunch
       THEN /\ futures' = [futures EXCEPT ![v] = "ffmpeg"]
            /\ extResult' = extResult
       ELSE /\ futures' = [futures EXCEPT ![v] = "raised"]
            /\ extResult' = [extResult EXCEPT ![v] = "launchfail"]
    /\ UNCHANGED << mainVars, enqueued, clientPuts, workerVars,
                    whisper_queue, unfinished, arrivals, audio >>

\* What ffmpeg leaves at the audio path: the extracted audio on exit code 0;
\* on a non-zero exit either nothing new or a partial file.
AudioAfterFfmpeg(v, rc, wrote) ==
    IF rc = 0 \/ wrote THEN [audio EXCEPT ![stem[v]] = v] ELSE audio

\* extract_audio putting its job twice.
ExtractFinish_PutTwice(v, rc, wrote) ==
    /\ UNCHANGED toolVars
    /\ futures[v] = "ffmpeg"
    /\ audio' = AudioAfterFfmpeg(v, rc, wrote)
    /\ extResult' = [extResult EXCEPT ![v] = IF rc = 0 THEN "ok" ELSE "nonzero"]
    /\ whisper_queue' = Put(Put(whisper_queue, v), v)
    /\ unfinished' = unfinished + 2
    /\ arrivals' = Append(Append(arrivals, v), v)
    /\ enqueued' = [enqueued EXCEPT ![v] = @ + 2]
    /\ futures' = [futures EXCEPT ![v] = "returned"]
    /\ UNCHANGED << mainVars, clientPuts, workerVars >>

\* extract_audio handing a video back to the pool when ffmpeg fails.
ExtractFinish_RetryOnFailure(v, rc, wrote) ==
    /\ UNCHANGED toolVars
    /\ futures[v] = "ffmpeg"
    /\ audio' = AudioAfterFfmpeg(v, rc, wrote)
    /\ IF rc = 0
       THEN /\ extResult' = [extResult EXCEPT ![v] = "ok"]
            /\ whisper_queue' = Put(whisper_queue, v)
            /\ unfinished' = unfinished + 1
            /\ arrivals' = Append(arrivals, v)
            /\ enqueued' = [enqueued EXCEPT ![v] = @ + 1]
            /\ futures' = [futures EXCEPT ![v] = "returned"]
       ELSE /\ futures' = [futures EXCEPT ![v] = "pending"]
            /\ UNCHANGED << extResult, whisper_queue, unfinished, arrivals, enqueued >>
    /\ UNCHANGED << mainVars, clientPuts, workerVars >>

\* Lines 60-78: ffmpeg exits with code rc.  subprocess.run is called without
\* check=True, so no CalledProcessError is raised for any rc: line 61 prints
\* completion and lines 68-77 build the job and put it on the module-level
\* queue.
ExtractFinish(v, rc, wrote) ==
    /\ UNCHANGED toolVars
    /\ futures[v] = "ffmpeg"
    /\ audio' = AudioAfterFfmpeg(v, rc, wrote)
    /\ extResult' = [extResult EXCEPT ![v] = IF rc = 0 THEN "ok" ELSE "nonzero"]
    /\ whisper_queue' = Put(whisper_queue, v)
    /\ unfinished' = unfinished + 1
    /\ arrivals' = Append(arrivals, v)
    /\ enqueued' = [enqueued EXCEPT ![v] = @ + 1]
    /\ futures' = [futures EXCEPT ![v] = "returned"]
    /\ UNCHANGED << mainVars, clientPuts, workerVars >>

----------------------------------------------------------------------------
\* whisper_worker

\* Lines 83-102: the command table is read from config/whisper_command.toml,
\* or the default table is written there when the file is absent.  Writing
\* (the config directory is missing or read-only) and parsing can raise, and
\* nothing catches it: the thread ends.  A table read from the file may lack
\* keys the loop reads.
LoadConfig(r) ==
    /\ UNCHANGED toolVars
    /\ worker_thread = "init"
    /\ worker_thread' = IF r = "raise" THEN "dead" ELSE "get"
    /\ cfgComplete' = (r = "complete")
    /\ UNCHANGED << mainVars, extVars, job, procs, taken, launched, doneCount,
                    outcome, lastFinish, whisper_queue, unfinished, arrivals, audio >>

\* Line 105: job is None.
IsSentinel(item) == item = Sentinel

\* A worker that starts the subprocess and returns to get() without waiting
\* for it.
StateAfterGet_NoWait(item, complete, canLaunch) ==
    IF item = Sentinel THEN "terminated"
    ELSE IF ~complete THEN "dead"
    ELSE "get"

\* A worker whose thread ends when the executable cannot be launched.
StateAfterGet_LaunchFailFatal(item, complete, canLaunch) ==
    IF item = Sentinel THEN "terminated"
    ELSE IF ~complete THEN "dead"
    ELSE IF canLaunch THEN "running"
    ELSE "dead"

\* A worker that skips the sentinel instead of leaving its loop.
StateAfterGet_IgnoreSentinel(item, complete, canLaunch) ==
    IF item = Sentinel THEN "get"
    ELSE IF ~complete THEN "dead"
    ELSE IF canLaunch THEN "running"
    ELSE "get"

\* Lines 104-182, the thread's state after whisper_queue.get() returned item:
\* the sentinel breaks the loop; building whisper_cmd (lines 119-148, outside
\* the try) raises KeyError when the table lacks a key; Popen either starts
\* the subprocess or raises FileNotFoundError, which the handler of line 205
\* turns into a failed job.
StateAfterGet(item, complete, canLaunch) ==
    IF IsSentinel(item) THEN "terminated"
    ELSE IF ~complete THEN "dead"
    ELSE IF canLaunch THEN "running"
    ELSE "get"

\* A cleanup that unlinks the audio file whatever the result.
Cleanup_Always(a, w, success, unlinkRaises) ==
    IF a[w] # 0 /\ ~unlinkRaises THEN [a EXCEPT ![w] = 0] ELSE a

\* Lines 226-241: the audio files after the finally block's cleanup.  The file
\* is unlinked only on success and only when it exists; an exception of
\* unlink is logged and the file stays.
Cleanup(a, w, success, unlinkRaises) ==
    IF success /\ a[w] # 0 /\ ~unlinkRaises THEN [a EXCEPT ![w] = 0] ELSE a

\* Line 246: whisper_queue.task_done() on the module-level queue.
TaskDone(n) == n - 1

\* Lines 104-182 (and 205-208, 225-247 when Popen raises).
WorkerGet(canLaunch) ==
    /\ UNCHANGED toolVars
    /\ worker_thread = "get"
    /\ whisper_queue # << >>
    /\ LET item == GetItem(whisper_queue)
           popen == ~IsSentinel(item) /\ cfgComplete
           launchOk == popen /\ canLaunch
           launchFailed == popen /\ ~canLaunch
       IN  /\ whisper_queue' = GetRest(whisper_queue)
           /\ taken' = Append(taken, item)
           /\ worker_thread' = StateAfterGet(item, cfgComplete, canLaunch)
           /\ job' = IF IsSentinel(item) \/ launchFailed THEN 0 ELSE item
           /\ procs' = IF launchOk THEN procs \cup {item} ELSE procs
           /\ launched' = IF launchOk THEN Append(launched, item) ELSE launched
           /\ IF launchFailed
              THEN /\ outcome' = [outcome EXCEPT ![item] = "failed"]
                   /\ doneCount' = [doneCount EXCEPT ![item] = @ + 1]
                   /\ unfinished' = TaskDone(unfinished)
                   /\ lastFinish' = [job |-> item, success |-> FALSE,
                                     unlinkRaised |-> FALSE]
              ELSE UNCHANGED << outcome, doneCount, unfinished, lastFinish >>
    /\ UNCHANGED << mainVars, extVars, cfgComplete, arrivals, audio >>

\* Lines 187-247: the subprocess ends with exit code 0 ("zero") or another
\* code ("nonzero"), or reading its output raises ("exception": the handler
\* of line 209 terminates the subprocess); then the finally block cleans up
\* and marks the job done.
WorkerExit(result, unlinkRaises) ==
    /\ UNCHANGED toolVars
    /\ worker_thread = "running"
    /\ LET success == result = "zero"
       IN  /\ audio' = Cleanup(audio, stem[job], success, unlinkRaises)
           /\ outcome' = [outcome EXCEPT ![job] = IF success THEN "ok" ELSE "failed"]
           /\ lastFinish' = [job |-> job, success |-> success,
                             unlinkRaised |-> success /\ audio[stem[job]] # 0
                                              /\ unlinkRaises]
    /\ procs' = procs \ {job}
    /\ doneCount' = [doneCount EXCEPT ![job] = @ + 1]
    /\ unfinished' = TaskDone(unfinished)
    /\ job' = 0
    /\ worker_thread' = "get"
    /\ UNCHANGED << mainVars, extVars, cfgComplete, taken, launched,
                    whisper_queue, arrivals >>

----------------------------------------------------------------------------
\* One call of transcribe_videos.

MainStep ==
    \/ CheckDirectories
    \/ StartWorker
    \/ \E v \in Videos : Submit(v)
    \/ SubmitDone
    \/ WaitFutures
    \/ QueueJoin
    \/ PutSentinel
    \/ JoinWorker

ExtractStep(v) ==
    \/ \E canLaunch \in BOOLEAN : ExtractLaunch(v, canLaunch)
    \/ \E rc \in {0, 1}, wrote \in BOOLEAN : ExtractFinish(v, rc, wrote)

WorkerStep ==
    \/ \E r \in {"complete", "incomplete", "raise"} : LoadConfig(r)
    \/ \E canLaunch \in BOOLEAN : WorkerGet(canLaunch)
    \/ \E result \in {"zero", "nonzero", "exception"}, unlinkRaises \in BOOLEAN :
          WorkerExit(result, unlinkRaises)

Next ==
    \/ MainStep
    \/ \E v \in Videos : ExtractStep(v)
    \/ WorkerStep

Spec == Init /\ [][Next]_vars

\* Every thread that can take a step eventually takes one, and every
\* subprocess eventually exits.
FairSpec ==
    /\ Init /\ [][Next]_vars
    /\ WF_vars(MainStep)
    /\ \A v \in Videos : WF_vars(ExtractStep(v))
    /\ WF_vars(WorkerStep)

----------------------------------------------------------------------------
\* whisper_worker alone, fed by a client that puts jobs and the close
\* sentinel on the module-level queue directly.

\* A client's whisper_queue.put(item).
ClientPut(item) ==
    /\ UNCHANGED toolVars
    /\ clientPuts < MaxClientPuts
    /\ clientPuts' = clientPuts + 1
    /\ whisper_queue' = Put(whisper_queue, item)
    /\ unfinished' = unfinished + 1
    /\ arrivals' = IF IsSentinel(item) THEN arrivals ELSE Append(arrivals, item)
    /\ UNCHANGED << mainVars, futures, extResult, enqueued,
                    workerVars, audio >>

\* The worker thread has been started on an empty queue; any of the audio
\* files may exist.
WorkerInit ==
    /\ mainPc = "none"
    /\ inputExists = TRUE
    /\ rootExists = TRUE
    /\ stem \in {s \in [Videos -> Wavs] : s[1] = 1}
    /\ futures = [v \in Videos |-> "unsubmitted"]
    /\ extResult = [v \in Videos |-> "none"]
    /\ enqueued = [v \in Videos |-> 0]
    /\ whisper_queue = << >>
    /\ unfinished = 0
    /\ local_queue = << >>
    /\ local_unfinished = 0
    /\ worker_thread = "init"
    /\ cfgComplete = FALSE
    /\ job = 0
    /\ procs = {}
    /\ arrivals = << >>
    /\ taken = << >>
    /\ launched = << >>
    /\ doneCount = [v \in Videos |-> 0]
    /\ outcome = [v \in Videos |-> "none"]
    /\ lastFinish = NoFinish
    /\ \E P \in SUBSET Videos :
          audio = [w \in Wavs |-> IF \E v \in P : stem[v] = w
                                  THEN CHOOSE v \in P : stem[v] = w ELSE 0]
    /\ clientPuts = 0
    /\ ToolsIdle

WorkerNext ==
    \/ \E item \in {Sentinel} \cup Videos : ClientPut(item)
    \/ WorkerStep

WorkerSpec == WorkerInit /\ [][WorkerNext]_vars

----------------------------------------------------------------------------
\* The pipeline while another utility runs: no call of transcribe_videos.
PipeIdle ==
    /\ mainPc = "none"
    /\ inputExists = TRUE
    /\ rootExists = TRUE
    /\ stem = [v \in Videos |-> 1]
    /\ futures = [v \in Videos |-> "unsubmitted"]
    /\ extResult = [v \in Videos |-> "none"]
    /\ enqueued = [v \in Videos |-> 0]
    /\ whisper_queue = << >>
    /\ unfinished = 0
    /\ local_queue = << >>
    /\ local_unfinished = 0
    /\ worker_thread = "unstarted"
    /\ cfgComplete = FALSE
    /\ job = 0
    /\ procs = {}
    /\ arrivals = << >>
    /\ taken = << >>
    /\ launched = << >>
    /\ doneCount = [v \in Videos |-> 0]
    /\ outcome = [v \in Videos |-> "none"]
    /\ lastFinish = NoFinish
    /\ audio = [w \in Wavs |-> 0]
    /\ clientPuts = 0

----------------------------------------------------------------------------
\* The directory walk of transcribe_videos (lines 280-284) and of
\* process_videos (src/explicit_util/whisper_cpp_transcribe.py, lines 80-82):
\* which entries of the input tree get an extractor invocation.

\* Number of entries rglob("*") yields.
NumEntries == 2

Entries == 1..NumEntries

\* Path.suffix values: an extension in lower, upper and mixed case, another
\* extension, and none.
Suffixes == {".mp4", ".MP4", ".Mp4", ".txt", ""}

\* str.lower() on a suffix.
Lower(sfx) == IF sfx \in {".MP4", ".Mp4"} THEN ".mp4" ELSE sfx

\* Line 281: video_file.suffix.lower() in suffix.  rglob("*") yields
\* directories as well as files, and the test does not look at the kind.
Selected(kind, sfx, allow) == Lower(sfx) \in allow

DiscInit ==
    /\ entryKind \in [Entries -> {"file", "dir"}]
    /\ entrySuffix \in [Entries -> Suffixes]
    /\ allowList \in SUBSET {".mp4", ".MP4", ".txt"}
    /\ walked = {}
    /\ submitted = [e \in Entries |-> 0]
    /\ PipeIdle
    /\ RmIdle /\ UzIdle /\ NmIdle /\ ZmIdle /\ CvIdle /\ NfIdle

\* Lines 280-284: the walk yields entry e; a selected entry is submitted to
\* the executor (or, in process_videos, processed at once).
WalkEntry(e) ==
    /\ e \notin walked
    /\ walked' = walked \cup {e}
    /\ submitted' = [submitted EXCEPT ![e] =
                        IF Selected(entryKind[e], entrySuffix[e], allowList)
                        THEN @ + 1 ELSE @]
    /\ UNCHANGED << entryKind, entrySuffix, allowList, pipeVars, rmVars, uzVars,
                    nmVars, zmVars, cvVars, nfVars >>

DiscNext == \E e \in Entries : WalkEntry(e)

DiscSpec == DiscInit /\ [][DiscNext]_vars

----------------------------------------------------------------------------
\* remove_empty_folders (src/src/ExplicitUtil/remove_empty.py lines 5-43,
\* src/explicit_util/remove_empty.py lines 13-51).

\* Number of directories below the root.
NumDirs == 3

Dirs == 1..NumDirs

\* The root directory.
Root == 0

AllDirs == Dirs \cup {Root}

\* The subdirectories a directory has when the walk starts.
Children(d) == {c \in Dirs : rmParent[c] = d}

\* The dirnames os.walk(topdown=False) yields with d: the subdirectories
\* listed when d was scanned, which is before anything below d was yielded,
\* so a subdirectory removed since then is still in the list.
Dirnames(d) == Children(d)

\* The filenames os.walk yields with d are non-empty.
Filenames(d) == d # Root /\ rmHasFiles[d]

\* count += 1 placed before os.rmdir: counted whether or not it raised.
CountAfterRmdir_Always(count, removed) == count + 1

\* Lines 35-39: count += 1 only after os.rmdir returned.
CountAfterRmdir(count, removed) == IF removed THEN count + 1 ELSE count

RmInit ==
    /\ rmRootIsDir \in BOOLEAN
    /\ rmParent \in {f \in [Dirs -> AllDirs] : \A d \in Dirs : f[d] < d}
    /\ rmHasFiles \in [Dirs -> BOOLEAN]
    /\ rmDryRun \in BOOLEAN
    /\ rmExists = AllDirs
    /\ rmVisited = {}
    /\ rmFailed = {}
    /\ rmCount = 0
    /\ rmPc = "check"
    /\ rmResult = 0
    /\ PipeIdle
    /\ DiscIdle /\ UzIdle /\ NmIdle /\ ZmIdle /\ CvIdle /\ NfIdle

\* Lines 16-22.
RmCheckRoot ==
    /\ rmPc = "check"
    /\ rmPc' = IF rmRootIsDir THEN "walk" ELSE "returned"
    /\ UNCHANGED << rmRootIsDir, rmParent, rmHasFiles, rmDryRun, rmExists,
                    rmVisited, rmFailed, rmCount, rmResult, pipeVars, discVars, uzVars,
                    nmVars, zmVars, cvVars, nfVars >>

\* Lines 24-39: os.walk yields d, after everything below d.  The root is
\* skipped; a directory yielded without filenames and dirnames is removed
\* unless dry_run, and os.rmdir may raise OSError.
RmVisit(d, rmdirOk) ==
    /\ rmPc = "walk"
    /\ d \notin rmVisited
    /\ Children(d) \subseteq rmVisited
    /\ rmVisited' = rmVisited \cup {d}
    /\ LET attempt == d # Root /\ ~Filenames(d) /\ Dirnames(d) = {} /\ ~rmDryRun
           removed == attempt /\ rmdirOk
       IN  /\ rmExists' = IF removed THEN rmExists \ {d} ELSE rmExists
           /\ rmFailed' = IF attempt /\ ~rmdirOk THEN rmFailed \cup {d} ELSE rmFailed
           /\ rmCount' = IF attempt THEN CountAfterRmdir(rmCount, removed) ELSE rmCount
    /\ UNCHANGED << rmRootIsDir, rmParent, rmHasFiles, rmDryRun, rmPc, rmResult,
                    pipeVars, discVars, uzVars,
                    nmVars, zmVars, cvVars, nfVars >>

\* Lines 41-43.
RmReturn ==
    /\ rmPc = "walk"
    /\ rmVisited = AllDirs
    /\ rmPc' = "returned"
    /\ rmResult' = rmCount
    /\ UNCHANGED << rmRootIsDir, rmParent, rmHasFiles, rmDryRun, rmExists,
                    rmVisited, rmFailed, rmCount, pipeVars, discVars, uzVars,
                    nmVars, zmVars, cvVars, nfVars >>

RmNext ==
    \/ RmCheckRoot
    \/ \E d \in AllDirs, rmdirOk \in BOOLEAN : RmVisit(d, rmdirOk)
    \/ RmReturn

RmSpec == RmInit /\ [][RmNext]_vars

----------------------------------------------------------------------------
\* recursive_unzip (src/explicit_util/recursive_unzip.py lines 6-36).

\* Number of ZIP archives folder.glob('**/*.zip') finds.
NumZips == 3

Zips == 1..NumZips

\* Directories of the tree the archives may lie in.
ZipDirs == 1..2

\* The directory named after archive z beside it: zip_path.with_suffix("").
NamedFolder(z) == << "named", uzDir[z], z >>

\* Line 25: extract_path = zip_path.parents[0], the directory the archive
\* lies in.
ExtractPath(z) == << "dir", uzDir[z] >>

UzInit ==
    /\ uzFolderExists \in BOOLEAN
    /\ uzDir \in [Zips -> ZipDirs]
    /\ uzDelete \in BOOLEAN
    /\ uzState = [z \in Zips |-> "found"]
    /\ uzTarget = [z \in Zips |-> << >>]
    /\ uzZips = Zips
    /\ uzPc = "check"
    /\ PipeIdle
    /\ DiscIdle /\ RmIdle /\ NmIdle /\ ZmIdle /\ CvIdle /\ NfIdle

\* Lines 15-19.
UzCheckFolder ==
    /\ uzPc = "check"
    /\ uzPc' = IF uzFolderExists THEN "loop" ELSE "returned"
    /\ UNCHANGED << uzFolderExists, uzDir, uzDelete, uzState, uzTarget, uzZips,
                    pipeVars, discVars, rmVars, nmVars, zmVars, cvVars, nfVars >>

\* Lines 21-36, one archive: extractall into the extract path and, with
\* delete_zips, unlink of the archive; BadZipFile and any other exception
\* are printed and the loop goes on.
Unzip(z, result) ==
    /\ uzPc = "loop"
    /\ uzState[z] = "found"
    /\ IF result = "ok"
       THEN /\ uzState' = [uzState EXCEPT ![z] = "extracted"]
            /\ uzTarget' = [uzTarget EXCEPT ![z] = ExtractPath(z)]
            /\ uzZips' = IF uzDelete THEN uzZips \ {z} ELSE uzZips
       ELSE /\ uzState' = [uzState EXCEPT ![z] = "failed"]
            /\ UNCHANGED << uzTarget, uzZips >>
    /\ UNCHANGED << uzFolderExists, uzDir, uzDelete, uzPc,
                    pipeVars, discVars, rmVars, nmVars, zmVars, cvVars, nfVars >>

\* The glob is exhausted.
UzReturn ==
    /\ uzPc = "loop"
    /\ \A z \in Zips : uzState[z] # "found"
    /\ uzPc' = "returned"
    /\ UNCHANGED << uzFolderExists, uzDir, uzDelete, uzState, uzTarget, uzZips,
                    pipeVars, discVars, rmVars, nmVars, zmVars, cvVars, nfVars >>

UzNext ==
    \/ UzCheckFolder
    \/ \E z \in Zips, result \in {"ok", "bad", "error"} : Unzip(z, result)
    \/ UzReturn

UzSpec == UzInit /\ [][UzNext]_vars

----------------------------------------------------------------------------
\* run_namer_command (src/explicit_util/recursive_namer.py lines 30-72),
\* called by process_video_files for each selected file in turn.

\* Number of files process_video_files selects.
NumItems == 3

Items == 1..NumItems

\* The function f extended by the value x at i.
Returned(f, i, x) == [j \in DOMAIN f \cup {i} |-> IF j = i THEN x ELSE f[j]]

\* Line 58: the condition under which the second command is run.
RunsSecond(returncode) == returncode = 0

NmInit ==
    /\ nmFirst = [i \in Items |-> "none"]
    /\ nmSecond = [i \in Items |-> "none"]
    /\ nmReturn = << >>
    /\ nmCur = 0
    /\ PipeIdle
    /\ DiscIdle /\ RmIdle /\ UzIdle /\ ZmIdle /\ CvIdle /\ NfIdle

\* Lines 42-58 (and 70-72): the command with -i ends with returncode rc, or
\* subprocess.run raises and (None, str(e), -1) is returned.
NmRunFirst(i, raised, rc) ==
    /\ nmCur = 0
    /\ nmFirst[i] = "none"
    /\ nmFirst' = [nmFirst EXCEPT ![i] =
                      IF raised THEN "raised" ELSE IF rc = 0 THEN "zero" ELSE "nonzero"]
    /\ IF ~raised /\ RunsSecond(rc)
       THEN nmCur' = i /\ nmReturn' = nmReturn
       ELSE nmCur' = 0 /\ nmReturn' = Returned(nmReturn, i, IF raised THEN -1 ELSE rc)
    /\ UNCHANGED << nmSecond, pipeVars, discVars, rmVars, uzVars, zmVars, cvVars,
                    nfVars >>

\* Lines 59-72: the command without -i ends; the values of the first command
\* are returned, or (None, str(e), -1) when subprocess.run raised.
NmRunSecond(i, raised, rc) ==
    /\ nmCur = i
    /\ nmCur' = 0
    /\ nmSecond' = [nmSecond EXCEPT ![i] =
                       IF raised THEN "raised" ELSE IF rc = 0 THEN "zero" ELSE "nonzero"]
    /\ nmReturn' = Returned(nmReturn, i, IF raised THEN -1 ELSE 0)
    /\ UNCHANGED << nmFirst, pipeVars, discVars, rmVars, uzVars, zmVars, cvVars,
                    nfVars >>

NmNext ==
    \/ \E i \in Items, raised \in BOOLEAN, rc \in {0, 1} : NmRunFirst(i, raised, rc)
    \/ \E i \in Items, raised \in BOOLEAN, rc \in {0, 1} : NmRunSecond(i, raised, rc)

NmSpec == NmInit /\ [][NmNext]_vars

----------------------------------------------------------------------------
\* zip_and_move and async_zip_and_move (src/src/ExplicitUtil/zip_and_move.py;
\* src/zip_and_move.py has the same loop body without the try of line 87).

\* Number of directories source_folder.rglob("*") yields.
NumFolders == 2

Folders == 1..NumFolders

\* Lines 16-20: a directory with entries and without subdirectories.
is_leaf_directory(f) == zmNonEmpty[f] /\ ~zmHasSubdir[f]

\* zip_directory(folder, temp_zip_path): the archive of the current content.
Archive == 1

\* compute_checksum of two archives agrees exactly when they are the same.
SameChecksum(a, b) == a = b

ZmInit ==
    /\ zmAsync \in BOOLEAN
    /\ zmSrcIsDir \in BOOLEAN
    /\ zmDstIsDir \in BOOLEAN
    /\ zmNonEmpty \in [Folders -> BOOLEAN]
    /\ zmHasSubdir \in {h \in [Folders -> BOOLEAN] :
                           \A f \in Folders : h[f] => zmNonEmpty[f]}
    /\ zmDest \in [Folders -> 0..2]
    /\ (~zmDstIsDir => \A f \in Folders : zmDest[f] = 0)
    /\ zmTemp = [f \in Folders |-> 0]
    /\ zmState = [f \in Folders |-> "todo"]
    /\ zmMoveFailed = {}
    /\ zmPc = "check"
    /\ PipeIdle
    /\ DiscIdle /\ RmIdle /\ UzIdle /\ NmIdle /\ CvIdle /\ NfIdle

\* Lines 57-61 (zip_and_move) and 136-143 (async_zip_and_move, which creates
\* a missing destination instead of returning).
ZmCheck ==
    /\ zmPc = "check"
    /\ zmPc' = IF zmSrcIsDir /\ (zmDstIsDir \/ zmAsync) THEN "run" ELSE "returned"
    /\ UNCHANGED << zmAsync, zmSrcIsDir, zmDstIsDir, zmNonEmpty, zmHasSubdir,
                    zmDest, zmTemp, zmState, zmMoveFailed,
                    pipeVars, discVars, rmVars, uzVars, nmVars,
                    cvVars, nfVars >>

\* Lines 62-63 and 145-146: a directory that is not a leaf is passed over.
ZmSkip(f) ==
    /\ zmPc = "run"
    /\ zmState[f] = "todo"
    /\ ~is_leaf_directory(f)
    /\ zmState' = [zmState EXCEPT ![f] = "skipped"]
    /\ UNCHANGED << zmAsync, zmSrcIsDir, zmDstIsDir, zmNonEmpty, zmHasSubdir,
                    zmDest, zmTemp, zmMoveFailed, zmPc,
                    pipeVars, discVars, rmVars, uzVars, nmVars,
                    cvVars, nfVars >>

\* Lines 64-91, zip_and_move on one leaf: the temporary zip is written; an
\* existing destination zip with the same checksum makes the temporary zip
\* be unlinked, one with another checksum makes nothing happen; without a
\* destination zip the temporary zip is moved there, and when the move raises
\* it is unlinked.
ZmSyncLeaf(f, moveOk) ==
    /\ zmPc = "run"
    /\ ~zmAsync
    /\ zmState[f] = "todo"
    /\ is_leaf_directory(f)
    /\ zmState' = [zmState EXCEPT ![f] = "done"]
    /\ IF zmDest[f] # 0
       THEN /\ zmTemp' = [zmTemp EXCEPT ![f] =
                             IF SameChecksum(zmDest[f], Archive) THEN 0 ELSE Archive]
            /\ UNCHANGED << zmDest, zmMoveFailed >>
       ELSE /\ zmTemp' = [zmTemp EXCEPT ![f] = 0]
            /\ zmDest' = [zmDest EXCEPT ![f] = IF moveOk THEN Archive ELSE 0]
            /\ zmMoveFailed' = IF moveOk THEN zmMoveFailed ELSE zmMoveFailed \cup {f}
    /\ UNCHANGED << zmAsync, zmSrcIsDir, zmDstIsDir, zmNonEmpty, zmHasSubdir, zmPc,
                    pipeVars, discVars, rmVars, uzVars, nmVars,
                    cvVars, nfVars >>

\* Lines 100-112, a process_leaf_folder task up to the end of its first
\* await: the temporary zip is written.
ZmAsyncZip(f) ==
    /\ zmPc = "run"
    /\ zmAsync
    /\ zmState[f] = "todo"
    /\ is_leaf_directory(f)
    /\ zmState' = [zmState EXCEPT ![f] = "zipped"]
    /\ zmTemp' = [zmTemp EXCEPT ![f] = Archive]
    /\ UNCHANGED << zmAsync, zmSrcIsDir, zmDstIsDir, zmNonEmpty, zmHasSubdir,
                    zmDest, zmMoveFailed, zmPc,
                    pipeVars, discVars, rmVars, uzVars, nmVars,
                    cvVars, nfVars >>

\* Lines 114-125, the rest of the task: an existing destination zip with the
\* same checksum makes the temporary zip be unlinked; in every other case the
\* temporary zip is moved onto the destination, and an exception of the move
\* ends the task.
ZmAsyncFinish(f, moveOk) ==
    /\ zmPc = "run"
    /\ zmState[f] = "zipped"
    /\ IF zmDest[f] # 0 /\ SameChecksum(zmDest[f], zmTemp[f])
       THEN /\ zmTemp' = [zmTemp EXCEPT ![f] = 0]
            /\ zmState' = [zmState EXCEPT ![f] = "done"]
            /\ UNCHANGED << zmDest, zmMoveFailed >>
       ELSE IF moveOk
            THEN /\ zmDest' = [zmDest EXCEPT ![f] = zmTemp[f]]
                 /\ zmTemp' = [zmTemp EXCEPT ![f] = 0]
                 /\ zmState' = [zmState EXCEPT ![f] = "done"]
                 /\ UNCHANGED zmMoveFailed
            ELSE /\ zmState' = [zmState EXCEPT ![f] = "raised"]
                 /\ zmMoveFailed' = zmMoveFailed \cup {f}
                 /\ UNCHANGED << zmDest, zmTemp >>
    /\ UNCHANGED << zmAsync, zmSrcIsDir, zmDstIsDir, zmNonEmpty, zmHasSubdir, zmPc,
                    pipeVars, discVars, rmVars, uzVars, nmVars,
                    cvVars, nfVars >>

\* The loop of zip_and_move ends, or asyncio.gather (line 152) returns or
\* raises the exception of a task.
ZmReturn ==
    /\ zmPc = "run"
    /\ \A f \in Folders : zmState[f] \in {"done", "skipped", "raised"}
    /\ zmPc' = IF \E f \in Folders : zmState[f] = "raised" THEN "raised" ELSE "returned"
    /\ UNCHANGED << zmAsync, zmSrcIsDir, zmDstIsDir, zmNonEmpty, zmHasSubdir,
                    zmDest, zmTemp, zmState, zmMoveFailed,
                    pipeVars, discVars, rmVars, uzVars, nmVars,
                    cvVars, nfVars >>

ZmNext ==
    \/ ZmCheck
    \/ \E f \in Folders : ZmSkip(f)
    \/ \E f \in Folders, moveOk \in BOOLEAN : ZmSyncLeaf(f, moveOk)
    \/ \E f \in Folders : ZmAsyncZip(f)
    \/ \E f \in Folders, moveOk \in BOOLEAN : ZmAsyncFinish(f, moveOk)
    \/ ZmReturn

ZmSpec == ZmInit /\ [][ZmNext]_vars

----------------------------------------------------------------------------
\* convert_pic_to_webp_multithreaded (src/explicit_util/convert_pic_to_webp.py;
\* src/convert_heic_to_webp.py is the same code with a fixed pattern list).

\* Number of picture files below the folder.
NumPics == 2

\* Largest value of the argument num_threads.
MaxThreads == 2

Pics == 1..NumPics

PicSeq == [p \in Pics |-> p]

\* folder.rglob(f"*{ext}"): on a file system that distinguishes case the
\* pattern matches the extension as written, otherwise every case of it.
MatchesLower(p) == ~cvCaseSensitive \/ cvExtCase[p] = "lower"

\* folder.rglob(f"*{ext.upper()}").
MatchesUpper(p) == ~cvCaseSensitive \/ cvExtCase[p] = "upper"

\* Lines 84-88: the two listings, one after the other.
ListPics == SelectSeq(PicSeq, MatchesLower) \o SelectSeq(PicSeq, MatchesUpper)

CvOthers == << pipeVars, discVars, rmVars, uzVars, nmVars, zmVars, nfVars >>

CvInit ==
    /\ cvCaseSensitive \in BOOLEAN
    /\ cvMagick \in BOOLEAN
    /\ num_threads \in 1..MaxThreads
    /\ cvExtCase \in [Pics -> {"lower", "upper", "mixed"}]
    /\ pic_files = << >>
    /\ cvIdx = 0
    /\ threads = {}
    /\ cvThread = << >>
    /\ cvConverted = {}
    /\ cvKilled = {}
    /\ cvSrc = [p \in Pics |-> TRUE]
    /\ cvWebp = [p \in Pics |-> "none"]
    /\ failed_count = 0
    /\ cvPc = "list"
    /\ PipeIdle
    /\ DiscIdle /\ RmIdle /\ UzIdle /\ NmIdle /\ ZmIdle /\ NfIdle

\* Lines 82-92: pic_files is built and the counter is created.
CvList ==
    /\ cvPc = "list"
    /\ pic_files' = ListPics
    /\ cvThread' = [i \in 1..Len(ListPics) |-> "new"]
    /\ cvPc' = "loop"
    /\ UNCHANGED << cvCaseSensitive, cvMagick, num_threads, cvExtCase, cvIdx, threads,
                    cvConverted, cvSrc, cvWebp, failed_count, cvKilled, CvOthers >>

\* A loop that joins only when the list has grown beyond num_threads.
CvStartThread_JoinLate ==
    /\ cvPc = "loop"
    /\ cvIdx < Len(pic_files)
    /\ cvIdx' = cvIdx + 1
    /\ threads' = threads \cup {cvIdx + 1}
    /\ cvThread' = [cvThread EXCEPT ![cvIdx + 1] = "started"]
    /\ cvPc' = IF Cardinality(threads') > num_threads THEN "join" ELSE "loop"
    /\ UNCHANGED << cvCaseSensitive, cvMagick, num_threads, cvExtCase, pic_files,
                    cvConverted, cvSrc, cvWebp, failed_count, cvKilled, CvOthers >>

\* Lines 97-106: the next picture gets a thread, which is started; with
\* len(threads) >= num_threads the loop goes on to join them.
CvStartThread ==
    /\ cvPc = "loop"
    /\ cvIdx < Len(pic_files)
    /\ cvIdx' = cvIdx + 1
    /\ threads' = threads \cup {cvIdx + 1}
    /\ cvThread' = [cvThread EXCEPT ![cvIdx + 1] = "started"]
    /\ cvPc' = IF Cardinality(threads') >= num_threads THEN "join" ELSE "loop"
    /\ UNCHANGED << cvCaseSensitive, cvMagick, num_threads, cvExtCase, pic_files,
                    cvConverted, cvSrc, cvWebp, failed_count, cvKilled, CvOthers >>

\* Lines 107-109: every thread of the list has been joined; the list is
\* emptied.
CvJoinBatch ==
    /\ cvPc = "join"
    /\ \A i \in threads : cvThread[i] = "done"
    /\ threads' = {}
    /\ cvPc' = "loop"
    /\ UNCHANGED << cvCaseSensitive, cvMagick, num_threads, cvExtCase, pic_files, cvIdx,
                    cvThread, cvConverted, cvSrc, cvWebp, failed_count, cvKilled, CvOthers >>

\* Lines 110-114: after the loop the remaining threads are joined and the
\* count is reported.
CvFinalJoin ==
    /\ cvPc = "loop"
    /\ cvIdx = Len(pic_files)
    /\ \A i \in threads : cvThread[i] = "done"
    /\ cvPc' = "done"
    /\ UNCHANGED << cvCaseSensitive, cvMagick, num_threads, cvExtCase, pic_files, cvIdx,
                    threads, cvThread, cvConverted, cvSrc, cvWebp, failed_count,
                    cvKilled, CvOthers >>

\* convert_single_pic lines 18-23 and 56-58: Popen starts magick; when the
\* executable cannot be launched Popen raises FileNotFoundError and the
\* thread returns without touching the counter.
CvPopen(i) ==
    /\ i \in DOMAIN cvThread
    /\ cvThread[i] = "started"
    /\ cvThread' = [cvThread EXCEPT ![i] = IF cvMagick THEN "running" ELSE "done"]
    /\ UNCHANGED << cvCaseSensitive, cvMagick, num_threads, cvExtCase, pic_files, cvIdx,
                    threads, cvConverted, cvSrc, cvWebp, failed_count, cvPc, cvKilled, CvOthers >>

\* What magick leaves at webp_path: what it wrote, or the file that was there.
WebpAfter(p, wrote) == IF wrote = "none" THEN cvWebp[p] ELSE wrote

\* Image.open(webp_path) succeeds (lines 41-43).
ValidWebp(w) == w = "valid"

\* convert_single_pic lines 24-65, from communicate on. A timeout sends
\* kill() to the process, which is not waited for, and counts; a WebP that does not open is unlinked and counts; then
\* the source is unlinked: a source that is gone raises FileNotFoundError
\* (return, not counted), another error counts.
CvCommunicate(i, timedOut, wrote, unlinkOk) ==
    /\ i \in DOMAIN cvThread
    /\ cvThread[i] = "running"
    /\ (~cvSrc[pic_files[i]]) => wrote = "none"
    /\ timedOut => wrote # "valid"
    /\ cvThread' = [cvThread EXCEPT ![i] = "done"]
    /\ cvKilled' = IF timedOut THEN cvKilled \cup {i} ELSE cvKilled
    /\ LET p == pic_files[i]
           w == WebpAfter(p, wrote)
       IN  IF timedOut
           THEN /\ cvWebp' = [cvWebp EXCEPT ![p] = w]
                /\ failed_count' = failed_count + 1
                /\ UNCHANGED << cvSrc, cvConverted >>
           ELSE IF ~ValidWebp(w)
           THEN /\ cvWebp' = [cvWebp EXCEPT ![p] = "none"]
                /\ failed_count' = failed_count + 1
                /\ UNCHANGED << cvSrc, cvConverted >>
           ELSE IF ~cvSrc[p]
           THEN /\ cvWebp' = [cvWebp EXCEPT ![p] = w]
                /\ UNCHANGED << cvSrc, cvConverted, failed_count >>
           ELSE IF unlinkOk
           THEN /\ cvWebp' = [cvWebp EXCEPT ![p] = w]
                /\ cvSrc' = [cvSrc EXCEPT ![p] = FALSE]
                /\ cvConverted' = cvConverted \cup {i}
                /\ UNCHANGED failed_count
           ELSE /\ cvWebp' = [cvWebp EXCEPT ![p] = w]
                /\ failed_count' = failed_count + 1
                /\ UNCHANGED << cvSrc, cvConverted >>
    /\ UNCHANGED << cvCaseSensitive, cvMagick, num_threads, cvExtCase, pic_files, cvIdx,
                    threads, cvPc, CvOthers >>

\* Line 27: process.kill() only sends the signal; the converter process ends
\* at some later moment, which nothing in the code waits for.
CvProcessEnds(i) ==
    /\ i \in cvKilled
    /\ cvKilled' = cvKilled \ {i}
    /\ UNCHANGED << cvCaseSensitive, cvMagick, num_threads, cvExtCase, pic_files, cvIdx,
                    threads, cvThread, cvConverted, cvSrc, cvWebp, failed_count, cvPc,
                    CvOthers >>

CvNext ==
    \/ CvList
    \/ CvStartThread
    \/ CvJoinBatch
    \/ CvFinalJoin
    \/ \E i \in 1..(2 * NumPics) : CvPopen(i)
    \/ \E i \in 1..(2 * NumPics) : CvProcessEnds(i)
    \/ \E i \in 1..(2 * NumPics), timedOut \in BOOLEAN,
          wrote \in {"none", "valid", "bad"}, unlinkOk \in BOOLEAN :
          CvCommunicate(i, timedOut, wrote, unlinkOk)

CvSpec == CvInit /\ [][CvNext]_vars

----------------------------------------------------------------------------
\* batch_add_attribute (src/src/ExplicitUtil/nfo_tool.py, lines 245-305).

\* Number of .nfo files below nfo_dir.
NumNfo == 2

Nfos == 1..NumNfo

\* Attributes: the two the function treats specially and another one.
Attributes == {"actor", "year", "studio"}

Values == {"a", "b"}

\* An element without text (for an actor: without a name).
NoText == "(none)"

\* A child of the root: its tag and its text; for an actor element the text
\* is the text of its name child.
Elements == [tag : Attributes, text : Values \cup {NoText}]

\* The roots the model starts from: at most one child.
Roots == {<< >>} \cup {<< e >> : e \in Elements}

\* root.findall(tag): the children with that tag.
Findall(root, tag) == SelectSeq(root, LAMBDA e : e.tag = tag)

\* Lines 272-276: the names of the actors that have one.
ExistingActors(root) ==
    LET actors == Findall(root, "actor")
    IN  {actors[i].text : i \in {j \in 1..Len(actors) : actors[j].text # NoText}}

\* ET.SubElement(root, tag) with the text set.
SubElement(root, tag, text) == Append(root, [tag |-> tag, text |-> text])

\* Line 295, `value in root.findall(attribute)`: value is a str and the list
\* holds Element objects, which compare by identity; a str equals none of
\* them.
ValueInFindall(value, found) == \E i \in 1..Len(found) : FALSE

\* Lines 270-301: the root after the call's step on one parsed file.
AddAttribute(root, attribute, value) ==
    IF attribute = "actor"
    THEN IF value \notin ExistingActors(root)
         THEN SubElement(root, "actor", value)
         ELSE root
    ELSE IF attribute = "year"
    THEN IF Findall(root, "year") = << >>
         THEN SubElement(root, "year", value)
         ELSE root
    ELSE IF ValueInFindall(value, Findall(root, attribute))
    THEN root
    ELSE SubElement(root, attribute, value)

NfOthers == << pipeVars, discVars, rmVars, uzVars, nmVars, zmVars, cvVars >>

NfInit ==
    /\ nfAttribute \in Attributes
    /\ nfValue \in Values
    /\ nfParses \in [Nfos -> BOOLEAN]
    /\ nfRoot \in [Nfos -> Roots]
    /\ nfDone = {}
    /\ nfCalls = 0
    /\ nfAfterFirst = nfRoot
    /\ PipeIdle
    /\ DiscIdle /\ RmIdle /\ UzIdle /\ NmIdle /\ ZmIdle /\ CvIdle

\* Lines 265-305, one iteration of the loop: a file that does not parse is
\* skipped; otherwise the root is changed and the file is written.
NfFile(f) ==
    /\ nfCalls < 2
    /\ f \notin nfDone
    /\ nfDone' = nfDone \cup {f}
    /\ nfRoot' = IF nfParses[f]
                 THEN [nfRoot EXCEPT ![f] = AddAttribute(@, nfAttribute, nfValue)]
                 ELSE nfRoot
    /\ UNCHANGED << nfAttribute, nfValue, nfParses, nfCalls, nfAfterFirst, NfOthers >>

\* The loop of line 265 ends and the call returns.
NfReturn ==
    /\ nfCalls < 2
    /\ nfDone = Nfos
    /\ nfCalls' = nfCalls + 1
    /\ nfDone' = {}
    /\ nfAfterFirst' = IF nfCalls = 0 THEN nfRoot ELSE nfAfterFirst
    /\ UNCHANGED << nfAttribute, nfValue, nfParses, nfRoot, NfOthers >>

NfNext ==
    \/ \E f \in Nfos : NfFile(f)
    \/ NfReturn

NfSpec == NfInit /\ [][NfNext]_vars

----------------------------------------------------------------------------
\* Properties

Range(q) == {q[i] : i \in 1..Len(q)}

\* The jobs the worker dequeued, in order.
Started == SelectSeq(taken, LAMBDA x : x # Sentinel)

Occurrences(q, x) == Cardinality({i \in 1..Len(q) : q[i] = x})

\* transcribe_videos has pushed the close sentinel (line 292 was executed).
SentinelPushed == mainPc \in {"wjoin", "done"}

\* C1: when both directories exist, under fair scheduling and with every
\* subprocess exiting, the call eventually reports completion.
C1_RunFinishes == (inputExists /\ rootExists) => <>(mainPc = "done")

\* C2: the close sentinel is pushed only after every extractor task has
\* completed and every enqueued job has been marked done: never while a job
\* is still queued or being transcribed.
C2_SentinelAfterDrain ==
    SentinelPushed =>
        /\ \A v \in Videos : futures[v] \in {"returned", "raised"}
        /\ whisper_queue = << >>
        /\ procs = {}
        /\ \A v \in Videos : enqueued[v] > 0 => outcome[v] # "none"

\* C3: for a video whose extraction fails (non-zero exit or ffmpeg cannot be
\* launched) no job is ever enqueued, the queue never holds a job for it and
\* the worker never takes one.
C3_FailedExtractionSkipped ==
    \A v \in Videos :
        extResult[v] \in {"nonzero", "launchfail"} =>
            /\ enqueued[v] = 0
            /\ v \notin Range(whisper_queue)
            /\ v \notin Range(taken)

\* C4: at most one transcription subprocess is alive at any time.
C4_AtMostOneTranscription == Cardinality(procs) <= 1

\* C4 witness: a transcription runs while another job waits in the queue.
C4_Witness ==
    /\ procs # {}
    /\ \E v \in Videos : v \notin procs /\ v \in Range(whisper_queue)

\* C5: when the run completes, the number of jobs in a terminal state equals
\* the number of successful extractions.
C5_TerminalEqualsExtracted ==
    mainPc = "done" =>
        Cardinality({v \in Videos : outcome[v] # "none"})
            = Cardinality({v \in Videos : extResult[v] = "ok"})

\* C6: a video whose extraction succeeded has exactly one job enqueued, and
\* no video ever has two.
C6_OneJobPerExtraction ==
    \A v \in Videos :
        /\ enqueued[v] <= 1
        /\ Occurrences(arrivals, v) = enqueued[v]
        /\ extResult[v] = "ok" => enqueued[v] = 1

\* C6 witness: two videos were extracted successfully.
C6_Witness ==
    \E v, w \in Videos : v # w /\ extResult[v] = "ok" /\ extResult[w] = "ok"

\* C7: the worker takes jobs in arrival order, and every job taken before the
\* latest one has finished.
C7_ArrivalOrder ==
    /\ Len(Started) <= Len(arrivals)
    /\ \A i \in 1..Len(Started) : Started[i] = arrivals[i]
    /\ \A i \in 1..(Len(Started) - 1) :
          outcome[Started[i]] # "none" /\ Started[i] \notin procs

\* C7 witness: two jobs were taken in turn; the first was transcribed and
\* marked done, the second is the only one still unfinished.
C7_Witness ==
    /\ Len(Started) >= 2
    /\ \E i \in 1..Len(launched) : launched[i] = Started[1]
    /\ unfinished = 1

\* The worker marked a job done in this step.
FinishStep == doneCount' # doneCount

\* C8 as stated: after a finished job its audio file is gone when the
\* transcription succeeded and exists when it failed.
C8_AudioGoneIffSuccess ==
    [][FinishStep =>
          LET w == stem[lastFinish'.job]
          IN  (IF lastFinish'.success THEN audio'[w] = 0 ELSE audio'[w] # 0)]_vars

\* C8 amended: after a finished job its audio file is gone when the
\* transcription succeeded and unlink did not raise; in every other case the
\* worker left the audio files as they were.
C8_AudioAfterFinish ==
    [][FinishStep =>
          LET w == stem[lastFinish'.job]
          IN  (IF lastFinish'.success /\ ~lastFinish'.unlinkRaised
               THEN audio'[w] = 0 /\ (\A x \in Wavs \ {w} : audio'[x] = audio[x])
               ELSE audio' = audio)]_vars

\* C8 witness: one job succeeded and its audio is gone, another failed and
\* its audio is still there.
C8_Witness ==
    \E v, w \in Videos :
        /\ outcome[v] = "ok" /\ audio[stem[v]] = 0
        /\ outcome[w] = "failed" /\ audio[stem[w]] = w
        /\ Occurrences(launched, w) = 1

\* C9: every job the worker dequeued is marked done exactly once: never
\* twice, and once whenever the worker is no longer transcribing it.
C9_DequeuedMarkedOnce ==
    \A v \in Videos :
        /\ doneCount[v] <= 1
        /\ (v \in Range(taken) /\ v \notin procs) => doneCount[v] = 1

\* C10: once the worker has taken the sentinel it takes nothing more and
\* starts no transcription, whatever is put on the queue afterwards.
C10_TerminatedForGood ==
    [][(Sentinel \in Range(taken)) =>
          (taken' = taken /\ launched' = launched /\ procs' = procs
           /\ worker_thread' = "terminated")]_vars

\* C10 witness: the worker has taken the sentinel and a job put afterwards
\* stays in the queue.
C10_Witness ==
    /\ Sentinel \in Range(taken)
    /\ worker_thread = "terminated"
    /\ \E v \in Videos : v \in Range(whisper_queue)

\* The allow-list with every entry lowercased.
LowerAll(allow) == {Lower(a) : a \in allow}

\* C11: every walked file whose extension, compared case-insensitively, is in
\* the allow-list got exactly one extractor invocation, and every other entry
\* (other or no extension, directory) got none.
C11_OneInvocationPerListedFile ==
    \A e \in walked :
        submitted[e] =
            IF entryKind[e] = "file" /\ Lower(entrySuffix[e]) \in LowerAll(allowList)
            THEN 1 ELSE 0

ExtractionFails(v) ==
    extResult[v] = "none" /\ extResult'[v] \in {"nonzero", "launchfail"}

\* Transcription of job j fails in this step.
TranscriptionFails(j) == outcome[j] = "none" /\ outcome'[j] = "failed"

\* C13: a failed extraction leaves the orchestrator, the worker and every
\* other extractor task as they were; a failed transcription leaves the worker
\* waiting for its next job, with the jobs still queued untouched, and leaves
\* the orchestrator, the extractor tasks and the other jobs as they were.
C13_FailuresAreLocal ==
    [][/\ \A v \in Videos :
             ExtractionFails(v) =>
                 (/\ mainPc' = mainPc
                  /\ worker_thread' = worker_thread
                  /\ \A w \in Videos \ {v} :
                        futures'[w] = futures[w] /\ extResult'[w] = extResult[w])
       /\ \A j \in Videos :
             TranscriptionFails(j) =>
                 (/\ worker_thread' = "get"
                  /\ mainPc' = mainPc
                  /\ futures' = futures
                  /\ \/ whisper_queue' = whisper_queue
                     \/ /\ whisper_queue # << >>
                        /\ whisper_queue' = Tail(whisper_queue)
                  /\ \A k \in Videos \ {j} : outcome'[k] = outcome[k])
      ]_vars

\* C13 witness: the extraction and the transcription of one video failed, and
\* the other video was extracted and then transcribed successfully.
C13_Witness ==
    \E v, w \in Videos :
        /\ v # w
        /\ extResult[v] = "nonzero" /\ outcome[v] = "failed"
        /\ extResult[w] = "ok" /\ outcome[w] = "ok"
        /\ taken = << v, w >>

\* C14: the worker thread is started once, and before any extractor: while it
\* has not been started no extractor task is submitted and no job is
\* enqueued, and it is started only from the not-started state.
C14_WorkerBeforeExtractors ==
    /\ [](worker_thread = "unstarted" =>
             /\ \A v \in Videos : futures[v] = "unsubmitted"
             /\ arrivals = << >>)
    /\ [][(worker_thread' = "init" /\ worker_thread # "init")
             => worker_thread = "unstarted"]_vars

\* C14 witness: the worker has been started and a job has been enqueued.
C14_Witness ==
    /\ worker_thread # "unstarted"
    /\ \E v \in Videos : futures[v] = "returned"
    /\ arrivals # << >>

\* A file lies in d or somewhere below d.
RECURSIVE ContainsFile(_)
ContainsFile(d) == Filenames(d) \/ \E c \in Children(d) : ContainsFile(c)

\* C15: after remove_empty_folders(root, dry_run=False) returned, with no
\* os.rmdir failure, no directory below the root is left that holds no file
\* at any depth.
C15_NoEmptyDirectoryLeft ==
    (rmPc = "returned" /\ rmRootIsDir /\ ~rmDryRun /\ rmFailed = {}) =>
        \A d \in Dirs : d \in rmExists => ContainsFile(d)

\* C16: the value returned is the number of directories removed; a dry run
\* removes nothing; the root and every directory with a file in or below it
\* are never removed.
C16_CountAndFrame ==
    /\ rmPc = "returned" => rmResult = Cardinality(AllDirs \ rmExists)
    /\ rmDryRun => rmExists = AllDirs
    /\ Root \in rmExists
    /\ \A d \in Dirs : ContainsFile(d) => d \in rmExists

\* C16 witness: a call that removed one directory, failed to remove another
\* and kept one that holds a file.
C16_Witness ==
    /\ rmPc = "returned"
    /\ rmResult = 1
    /\ rmFailed # {}
    /\ \E d \in Dirs : rmHasFiles[d] /\ d \in rmExists

\* C17: every extracted archive was extracted into the folder named after
\* it, so two archives of one directory never share their extract directory.
C17_SeparateFolderPerArchive ==
    /\ \A z \in Zips : uzState[z] = "extracted" => uzTarget[z] = NamedFolder(z)
    /\ \A y, z \in Zips :
          (y # z /\ uzState[y] = "extracted" /\ uzState[z] = "extracted")
              => uzTarget[y] # uzTarget[z]

\* C18: when run_namer_command has returned, the second command was run if
\* and only if the first one ended with a non-zero code.
C18_FallbackIffFirstFailed ==
    \A i \in Items :
        i \in DOMAIN nmReturn =>
            ((nmSecond[i] # "none") <=> (nmFirst[i] = "nonzero"))

\* C19: after a call on a valid source and destination in which no move
\* raised, every leaf directory has its destination zip and that zip is the
\* archive of the directory's current content.
C19_DestinationIsCurrentArchive ==
    (zmPc = "returned" /\ zmSrcIsDir /\ zmDstIsDir /\ zmMoveFailed = {}) =>
        \A f \in Folders : is_leaf_directory(f) => zmDest[f] = Archive

\* The listed picture files that no thread converted (validated WebP, source
\* deleted).
NotConverted ==
    {p \in Range(pic_files) :
        ~\E i \in cvConverted : pic_files[i] = p}

\* C20: when the run has finished, the reported failed count is the number
\* of listed picture files that were not converted to a valid WebP.
C20_FailedCountIsExact ==
    cvPc = "done" => failed_count = Cardinality(NotConverted)

\* The threads that were started for picture p.
ThreadsOf(p) == {i \in DOMAIN cvThread : pic_files[i] = p /\ cvThread[i] # "new"}

\* C21: when the run has finished, every picture file below the folder, in
\* whatever letter case its extension is written, was handed to exactly one
\* conversion thread.
C21_EachPictureOneThread ==
    cvPc = "done" => \A p \in Pics : Cardinality(ThreadsOf(p)) = 1

\* C22: the worker thread ends only by dequeuing the sentinel: whenever the
\* thread is no longer running (it left its loop or an exception ended it),
\* the sentinel is among the items it has taken from the queue.
C22_EndsOnlyOnSentinel ==
    worker_thread \in {"dead", "terminated"} => Sentinel \in Range(taken)

\* How far the extraction of a video has come: not submitted, waiting in the
\* pool, ffmpeg running, ended.
ExtractionStage(f) ==
    CASE f = "unsubmitted" -> 0
      [] f = "pending" -> 1
      [] f = "ffmpeg" -> 2
      [] OTHER -> 3

\* C23: no retries.  The transcription tool is launched at most once per job,
\* and the extraction of a video only moves forward (submitted, ffmpeg
\* launched, ended), so that ffmpeg is launched at most once per video, also
\* after a failure.
C23_NoRetries ==
    /\ [](\A v \in Videos : Occurrences(launched, v) <= 1)
    /\ [][(\A v \in Videos :
             ExtractionStage(futures'[v]) >= ExtractionStage(futures[v]))]_vars

\* ffmpeg failed for a video, its transcription was launched once and failed,
\* and the worker is back at the queue.
C23_Witness ==
    \E v \in Videos :
        /\ extResult[v] = "nonzero"
        /\ outcome[v] = "failed"
        /\ Occurrences(launched, v) = 1
        /\ worker_thread = "get"

\* The conversion threads that were started and have not ended.
AliveThreads == {i \in DOMAIN cvThread : cvThread[i] \in {"started", "running"}}

\* The converter processes a thread is waiting for in communicate.
AwaitedProcesses == {i \in DOMAIN cvThread : cvThread[i] = "running"}

\* The converter processes that have not ended: the awaited ones and the ones
\* that were sent kill() after a timeout.
AliveProcesses == AwaitedProcesses \cup cvKilled

\* C24 as stated: at every point at most num_threads conversion threads and
\* at most num_threads converter processes are alive, and when completion is
\* reported every thread that was started has ended.
C24_BoundedConcurrency ==
    /\ Cardinality(AliveThreads) <= num_threads
    /\ Cardinality(AliveProcesses) <= num_threads
    /\ cvPc = "done" =>
          \A i \in DOMAIN cvThread : cvThread[i] = "done"

\* C24, amended: the bound holds for the threads and for the processes a
\* thread still waits for, and every started thread has ended when completion
\* is reported.
C24_BoundedThreads ==
    /\ Cardinality(AliveThreads) <= num_threads
    /\ Cardinality(AwaitedProcesses) <= num_threads
    /\ cvPc = "done" =>
          \A i \in DOMAIN cvThread : cvThread[i] = "done"

\* The bound is reached while pictures are still waiting for a thread.
C24_Witness ==
    /\ num_threads = MaxThreads
    /\ Cardinality(AwaitedProcesses) = num_threads
    /\ cvIdx < Len(pic_files)

\* C25: the same call applied twice leaves every nfo file as the first call
\* left it.
C25_SecondCallChangesNothing ==
    nfCalls = 2 => nfRoot = nfAfterFirst

\* A job that is queued or being transcribed.
InFlight(u) == u \in Range(whisper_queue) \/ job = u

\* C26: the audio file of a job that is queued or being transcribed is
\* changed (overwritten or deleted) by no step but the worker's finishing of
\* that very job.
C26_AudioBelongsToOneJob ==
    [][(\A u \in Videos :
          (InFlight(u) /\ audio'[stem[u]] # audio[stem[u]]) =>
              (job = u /\ job' = 0))]_vars

\* C27: when the processing of a leaf folder has ended without an exception,
\* its temporary archive no longer exists.
C27_NoTemporaryArchiveLeft ==
    \A f \in Folders : zmState[f] = "done" => zmTemp[f] = 0

====
